---- MODULE Spec2Model ----
(***************************************************************************)
(* NSkbd: per-window keyboard layout switcher (src/src/main.rs).           *)
(*                                                                         *)
(* Contexts: the daemon's main thread (new, run, handle_window_change),    *)
(* the daemon's key listener thread (start_keyboard_listener), and a       *)
(* separate `--add` process (new, add_current_window).  They share the     *)
(* configuration file on disk and the OS keyboard layout; the two daemon   *)
(* threads also share the Arc<Mutex<AppConfig>>.                           *)
(***************************************************************************)
EXTENDS Integers, Sequences, FiniteSets, TLC

(***************************************************************************)
(* Bounds of the model.                                                    *)
(***************************************************************************)
\* SystemTime is counted in units of 100 ms, from 0 to MaxTime.
MaxTime == 24
\* Layout identifiers are 0..MaxLayout (a u8 in the source).
MaxLayout == 1
\* X11 window identifiers are 0..MaxWindow; 0 is what the listener uses when
\* _NET_ACTIVE_WINDOW holds no value.
MaxWindow == 1
\* How many times the `--add` process is started.
MaxAddRuns == 1

\* Duration::from_secs(1), in units of 100 ms.
CooldownTicks == 10

\* Option<T>: None is the empty sequence and Some(v) the sequence of v alone.
None == <<>>
Some(v) == <<v>>

Layouts == 0..MaxLayout
WindowIds == 0..MaxWindow
\* Window class strings after trim().to_lowercase(); "" is the class of a
\* window whose WM_CLASS value is empty.
Classes == {"", "foo"}

(***************************************************************************)
(* rdev::Key values that the model delivers, and ModifierState.            *)
(***************************************************************************)
Keys == {"ShiftLeft", "ShiftRight", "ControlLeft", "ControlRight",
         "Alt", "AltGr", "MetaLeft", "MetaRight", "KeyQ", "KeyA"}

Roles == {"shift", "ctrl", "alt", "meta"}

\* #[derive(Default)] ModifierState: all flags false.
ModifierState_default == [r \in Roles |-> FALSE]

\* A slip in update: only the left variant of a modifier is recognised.
update_left_only(m, key, is_press) ==
    CASE key = "ShiftLeft"   -> [m EXCEPT !["shift"] = is_press]
      [] key = "ControlLeft" -> [m EXCEPT !["ctrl"] = is_press]
      [] key = "Alt"         -> [m EXCEPT !["alt"] = is_press]
      [] key = "MetaLeft"    -> [m EXCEPT !["meta"] = is_press]
      [] OTHER               -> m

\* ModifierState::update
update(m, key, is_press) ==
    CASE key \in {"ShiftLeft", "ShiftRight"}     -> [m EXCEPT !["shift"] = is_press]
      [] key \in {"ControlLeft", "ControlRight"} -> [m EXCEPT !["ctrl"] = is_press]
      [] key \in {"Alt", "AltGr"}                -> [m EXCEPT !["alt"] = is_press]
      [] key \in {"MetaLeft", "MetaRight"}       -> [m EXCEPT !["meta"] = is_press]
      [] OTHER                                   -> m

\* A plausible slip in matches: a subset test instead of equality.
matches_subset(m, required_mods) ==
    \A r \in Roles : (r \in required_mods) => m[r]

\* ModifierState::matches
matches(m, required_mods) ==
    /\ ("shift" \in required_mods) = m["shift"]
    /\ ("ctrl" \in required_mods) = m["ctrl"]
    /\ ("alt" \in required_mods) = m["alt"]
    /\ ("meta" \in required_mods) = m["meta"]

(***************************************************************************)
(* Hotkey strings.  A string is a sequence of pieces; the piece " " is a   *)
(* run of whitespace and every other piece is a maximal run of             *)
(* non-whitespace characters.                                              *)
(***************************************************************************)
Words == {"ctrl", "Ctrl", "shift", "alt", "meta", "super", "win",
          "q", "Q", "a", "zz"}

\* str::to_lowercase on the words of the model.
to_lowercase(w) ==
    CASE w = "Ctrl" -> "ctrl"
      [] w = "Q"    -> "q"
      [] OTHER      -> w

\* The values that a reply to get_property for WM_CLASS can carry, as the
\* strings between the NUL bytes: none when the window has no such property
\* (or one of another type than the one asked for), else instance and class.
WmClassValues == {<<>>, <<"foo", "Foo">>}

\* get_window_class for a reply with value, and the same steps in the
\* listener: String::from_utf8, split('\0').next(), trim, to_lowercase.
\* split yields one empty string for an empty value, so next() is Some("").
get_window_class(value) ==
    Some(IF value = <<>> THEN "" ELSE to_lowercase(value[1]))

\* str::split_whitespace
RECURSIVE split_whitespace(_)
split_whitespace(s) ==
    IF s = <<>> THEN <<>>
    ELSE IF Head(s) = " " THEN split_whitespace(Tail(s))
    ELSE <<Head(s)>> \o split_whitespace(Tail(s))

\* KeyboardLayoutSwitcher::str_to_key, for the key names of the model; the
\* argument is already lower-cased by the caller and again by the function.
str_to_key(key_str) ==
    CASE to_lowercase(key_str) = "q"  -> Some("KeyQ")
      [] to_lowercase(key_str) = "a"  -> Some("KeyA")
      [] OTHER                        -> None

\* The loop of check_hotkey over the parts: the state is the pair
\* (required_mods, required_key).
RECURSIVE parse_parts(_, _, _)
parse_parts(parts, required_mods, required_key) ==
    IF parts = <<>> THEN [mods |-> required_mods, key |-> required_key]
    ELSE LET part == to_lowercase(Head(parts)) IN
         CASE part = "shift" ->
                parse_parts(Tail(parts), required_mods \cup {"shift"}, required_key)
           [] part = "ctrl" ->
                parse_parts(Tail(parts), required_mods \cup {"ctrl"}, required_key)
           [] part = "alt" ->
                parse_parts(Tail(parts), required_mods \cup {"alt"}, required_key)
           [] part \in {"meta", "super", "win"} ->
                parse_parts(Tail(parts), required_mods \cup {"meta"}, required_key)
           [] OTHER ->
                parse_parts(Tail(parts), required_mods, str_to_key(part))

\* A slip in check_hotkey: the parts are gone through from the last to the
\* first, so that the first token that is not a modifier sets the key.
check_hotkey_first_key(pressed, mods, hotkey_str) ==
    LET parts == split_whitespace(hotkey_str)
        reversed == [i \in 1..Len(parts) |-> parts[Len(parts) + 1 - i]]
        p == parse_parts(reversed, {}, None)
    IN  /\ matches(mods, p.mods)
        /\ p.key # None
        /\ p.key[1] \in pressed

\* KeyboardLayoutSwitcher::check_hotkey
check_hotkey(pressed, mods, hotkey_str) ==
    LET p == parse_parts(split_whitespace(hotkey_str), {}, None) IN
    /\ matches(mods, p.mods)
    /\ p.key # None
    /\ p.key[1] \in pressed

\* "ctrl shift q", the default of load_from_file.
DefaultHotkey == <<"ctrl", " ", "shift", " ", "q">>

(***************************************************************************)
(* AppConfig and its file.                                                 *)
(***************************************************************************)
EmptyMap == [x \in {} |-> 0]

\* HashMap::insert
insert(map, k, v) ==
    [x \in (DOMAIN map) \cup {k} |-> IF x = k THEN v ELSE map[x]]

\* A slip in a lookup: a missing key reads as the default value.
get_or_default(map, k) == IF k \in DOMAIN map THEN Some(map[k]) ELSE Some(0)

\* HashMap::get
get(map, k) == IF k \in DOMAIN map THEN Some(map[k]) ELSE None

\* The AppConfig that load_from_file builds when the file is missing.
DefaultConfig ==
    [window_layout_map |-> EmptyMap,
     hotkeys |-> [a \in {"add_window"} |-> DefaultHotkey]]

\* The content of a file: the entries of the two JSON objects in the order
\* in which they are written, whether they form a complete JSON document,
\* and the number of bytes that follow the document (what is left of a
\* longer content whose beginning was overwritten).  A file just created by
\* File::create is EmptyText.
EmptyText == [w |-> <<>>, h |-> <<>>, complete |-> FALSE, tail |-> 0]

\* The orders in which the entries of a HashMap can be iterated.
Orderings(map) ==
    LET n == Cardinality(DOMAIN map) IN
    { [i \in 1..n |-> <<f[i], map[f[i]]>>] :
        f \in { g \in [1..n -> DOMAIN map] :
                  \A i, j \in 1..n : g[i] = g[j] => i = j } }

\* serde_json::to_string_pretty(&AppConfig): the fields in declaration
\* order, each map in its iteration order.
to_string_pretty(cfg) ==
    { [w |-> ws, h |-> hs, complete |-> TRUE, tail |-> 0] :
        ws \in Orderings(cfg.window_layout_map),
        hs \in Orderings(cfg.hotkeys) }

\* The bytes of a hotkey string, which is kept as its words and blanks.
RECURSIVE str_len(_)
str_len(s) == IF s = <<>> THEN 0 ELSE Len(Head(s)) + str_len(Tail(s))

\* The decimal digits of a layout number, a u8.
digits(n) == IF n < 10 THEN 1 ELSE IF n < 100 THEN 2 ELSE 3

\* The bytes of the entries of an inner JSON object as to_string_pretty
\* prints them: each on a line of its own, indented by 4, a comma between
\* two; value_len gives the bytes of a value.
\* The bytes of the entries of an inner JSON object as to_string_pretty
\* prints them: each on a line of its own, indented by 4, a comma between
\* two.  The values are layout numbers, or hotkey strings in quotes.
RECURSIVE entries_len(_, _)
entries_len(entries, strings) ==
    IF entries = <<>> THEN 0
    ELSE 1 + 4 + (Len(Head(entries)[1]) + 2) + 2
         + (IF strings THEN str_len(Head(entries)[2]) + 2
                       ELSE digits(Head(entries)[2]))
         + (IF Tail(entries) = <<>> THEN 0 ELSE 1)
         + entries_len(Tail(entries), strings)

\* The bytes of an inner JSON object: {} when it is empty, else the opening
\* brace, the entries, and the closing brace on a line of its own.
object_len(entries, strings) ==
    IF entries = <<>> THEN 2
    ELSE 1 + entries_len(entries, strings) + 1 + 2 + 1

\* The bytes of the document that to_string_pretty prints.
document_len(text) ==
    1 + (1 + 2 + 19 + 2 + object_len(text.w, FALSE)) + 1
      + (1 + 2 + 9 + 2 + object_len(text.h, TRUE)) + 1 + 1

\* The bytes of a file content.
text_len(text) ==
    (IF text.complete THEN document_len(text) ELSE 0) + text.tail

\* The map read back from a list of entries; a later duplicate key wins.
RECURSIVE collect(_, _)
collect(entries, acc) ==
    IF entries = <<>> THEN acc
    ELSE collect(Tail(entries), insert(acc, Head(entries)[1], Head(entries)[2]))

\* A slip in load_from_file: a text that does not parse yields the default
\* configuration instead of the error.
from_str_or_default(text) ==
    IF text.complete /\ text.tail = 0
    THEN Some([window_layout_map |-> collect(text.w, EmptyMap),
               hotkeys |-> collect(text.h, EmptyMap)])
    ELSE Some(DefaultConfig)

\* serde_json::from_str::<AppConfig>: None is the parse error.  Bytes after
\* the document are an error ("trailing characters").
from_str(text) ==
    IF text.complete /\ text.tail = 0
    THEN Some([window_layout_map |-> collect(text.w, EmptyMap),
               hotkeys |-> collect(text.h, EmptyMap)])
    ELSE None

AbsentFile == [exists |-> FALSE, text |-> EmptyText]

\* File::create(path): the file at the path is created, or truncated when
\* it is there; either way it exists and is empty.
File_create == [exists |-> TRUE, text |-> EmptyText]

\* The contexts that open config.json for writing.
Contexts == {"main", "listener", "add"}

\* write_all writes at offset 0 of the file that File::create opened: the
\* bytes of new replace the first bytes of old, and what old holds beyond
\* them stays.
write_at_start(old, new) ==
    [new EXCEPT !.tail = IF text_len(old) > text_len(new)
                         THEN text_len(old) - text_len(new)
                         ELSE 0]

\* file.write_all(content) and sync_all, through a descriptor in state d.
\* An open descriptor is on the file at the path; when the path was removed
\* after File::create ("unlinked"), the bytes go to the removed file and
\* nothing is at the path.
write_all(f, d, cfg) ==
    IF d = "open"
    THEN { [exists |-> TRUE, text |-> write_at_start(f.text, t)] :
             t \in to_string_pretty(cfg) }
    ELSE {f}

\* The files that hold exactly a saved cfg.
saved(cfg) == { [exists |-> TRUE, text |-> t] : t \in to_string_pretty(cfg) }

\* The files the contexts can find when they start: none, the default one,
\* one with a mapping, and an empty one.
InitialFiles ==
    {AbsentFile, File_create}
    \cup saved(DefaultConfig)
    \cup saved([DefaultConfig EXCEPT
                  !.window_layout_map = [c \in {"foo"} |-> 1]])

(***************************************************************************)
(* State.                                                                  *)
(***************************************************************************)
VARIABLES
    file,            \* config.json: [exists, text]
    osLayout,        \* the layout the adapter (xkblayout-state) reports
    now,             \* SystemTime::now()
    mpc,             \* daemon main thread: where it is in new / run
    config,          \* daemon: the AppConfig inside Arc<Mutex<AppConfig>>
    lock,            \* daemon: who holds the Mutex: "free", "main", "listener"
    last_window_id,  \* daemon: KeyboardLayoutSwitcher.last_window_id
    h,               \* handle_window_change: window_class, target_layout
    obs,             \* what the current handle_window_change call has issued
    lpc,             \* listener thread: where it is in the callback
    pressed_keys,    \* listener: pressed_keys
    modifiers,       \* listener: modifiers
    last_hotkey,     \* listener: last_hotkey
    l,               \* listener callback: window_class, layout, local_config
    lastPress,       \* the last matching key press: its time, fired or not
    apc,             \* `--add` process: where it is in main
    a,               \* `--add` process: its AppConfig, window_class, layout
    addRuns,         \* how many `--add` processes have been started
    remembered,      \* per writer, the class its last completed save wrote
                     \* into the file that is there now
    hkResult,        \* the result of an application of check_hotkey
    logged,          \* the error and warning records that the last step of
                     \* the program wrote to the log file of its process
    fd,              \* per context, the descriptor of its File::create:
                     \* "closed", "open", or "unlinked" (the path removed)
    log_file         \* kbd_switcher.log: whether a file is at the path, and
                     \* the processes whose logger writes to that file

vars == <<file, osLayout, now, mpc, config, lock, last_window_id, h, obs,
          lpc, pressed_keys, modifiers, last_hotkey, l, lastPress,
          apc, a, addRuns, remembered, hkResult, logged, fd, log_file>>

\* The state of the program and of its environment, without the records of
\* the last step.
stateVars == <<file, osLayout, now, mpc, config, lock, last_window_id, h, obs,
               lpc, pressed_keys, modifiers, last_hotkey, l, lastPress,
               apc, a, addRuns, remembered, hkResult, fd, log_file>>

daemonVars == <<mpc, config, lock, last_window_id, h, obs>>
keyVars == <<pressed_keys, modifiers, last_hotkey, lastPress>>
listenerVars == <<lpc, pressed_keys, modifiers, last_hotkey, l, lastPress>>
addVars == <<apc, a, addRuns>>

NoObs == [class |-> None, gets |-> 0, getRes |-> None,
          sets |-> <<>>, setFailed |-> FALSE]
\* prev is the content that the File::create of a save in progress replaced.
NoLocals == [class |-> "", layout |-> 0, cfg |-> DefaultConfig, prev |-> EmptyText]
NoHandle == [class |-> "", target |-> 0]

\* No kbd_switcher.log at the path.
NoLogFile == [exists |-> FALSE, writers |-> {}]

\* File::create of the log file by process p: a file that is at the path is
\* opened and truncated, and the processes that write to it go on writing
\* to it; otherwise a new file is created.
Log_create(lf, p) == [exists |-> TRUE, writers |-> lf.writers \cup {p}]

\* The state when both processes are about to call KeyboardLayoutSwitcher::new.
Init ==
    /\ file \in InitialFiles
    /\ osLayout \in Layouts
    /\ now = 0
    /\ mpc = "new"
    /\ config = DefaultConfig
    /\ lock = "free"
    /\ last_window_id = None
    /\ h = NoHandle
    /\ obs = NoObs
    /\ lpc = "off"
    /\ pressed_keys = {}
    /\ modifiers = ModifierState_default
    /\ last_hotkey = 0
    /\ l = NoLocals
    /\ lastPress = None
    /\ apc = "off"
    /\ a = NoLocals
    /\ addRuns = 0
    /\ remembered = [wr \in {"listener", "add"} |-> None]
    /\ hkResult = None
    /\ logged = <<>>
    /\ fd = [c \in Contexts |-> "closed"]
    /\ log_file = NoLogFile

(***************************************************************************)
(* Environment.                                                            *)
(***************************************************************************)
\* Time passes.
Tick(d) ==
    /\ now + d <= MaxTime
    /\ now' = now + d
    /\ UNCHANGED <<file, osLayout, daemonVars, listenerVars, addVars,
                   remembered, hkResult>>
    /\ UNCHANGED logged
    /\ UNCHANGED <<fd, log_file>>

\* The user switches the layout by other means.
UserSwitchLayout(lay) ==
    /\ lay # osLayout
    /\ osLayout' = lay
    /\ UNCHANGED <<file, now, daemonVars, listenerVars, addVars,
                   remembered, hkResult>>
    /\ UNCHANGED logged
    /\ UNCHANGED <<fd, log_file>>

\* The user removes config.json: the descriptors that are open on it stay
\* on the removed file.
UserRemoveFile ==
    /\ file.exists
    /\ file' = AbsentFile
    /\ fd' = [c \in Contexts |-> IF fd[c] = "open" THEN "unlinked" ELSE fd[c]]
    /\ remembered' = [wr \in DOMAIN remembered |-> None]
    /\ UNCHANGED <<osLayout, now, daemonVars, listenerVars, addVars, hkResult>>
    /\ UNCHANGED <<logged, log_file>>

\* The process of the daemon ends: its listener thread ends with it.
killed(pc) == IF pc = "off" THEN "off" ELSE "dead"

(***************************************************************************)
(* Daemon, main thread: KeyboardLayoutSwitcher::new and run.               *)
(***************************************************************************)
\* new: a log file that is at the path is removed; the processes that wrote
\* to it keep the removed file.
M_LogRemove ==
    /\ mpc = "new"
    /\ mpc' = "new_log"
    /\ log_file' = NoLogFile
    /\ logged' = <<>>
    /\ UNCHANGED <<file, osLayout, now, config, lock, last_window_id, h, obs,
                   listenerVars, addVars, remembered, hkResult, fd>>

\* new: File::create of the log file and the logger on it.
M_LogCreate ==
    /\ mpc = "new_log"
    /\ mpc' = "new_load"
    /\ log_file' = Log_create(log_file, "daemon")
    /\ logged' = <<>>
    /\ UNCHANGED <<file, osLayout, now, config, lock, last_window_id, h, obs,
                   listenerVars, addVars, remembered, hkResult, fd>>

\* new: load_from_file tests path.exists(); for a missing file the warning
\* is written.
M_New ==
    /\ mpc = "new_load"
    /\ mpc' = IF file.exists THEN "new_read" ELSE "new_create"
    /\ logged' = IF file.exists THEN <<>> ELSE <<"Creating new config file">>
    /\ UNCHANGED <<file, osLayout, now, config, lock, last_window_id, h, obs,
                   listenerVars, addVars, remembered, hkResult, fd, log_file>>

\* new: load_from_file of a file that was there: fs::read_to_string and
\* serde_json::from_str.  An error of either (the file is gone, or its
\* content does not parse) ends the process.
M_Read ==
    /\ mpc = "new_read"
    /\ IF file.exists /\ from_str(file.text) # None
       THEN mpc' = "run" /\ config' = from_str(file.text)[1]
       ELSE mpc' = "exit_err" /\ UNCHANGED config
    /\ logged' = <<>>
    /\ UNCHANGED <<file, osLayout, now, lock, last_window_id, h, obs,
                   listenerVars, addVars, remembered, hkResult, fd, log_file>>

\* new: load_from_file of a missing file: save_to_file of the default
\* configuration begins with File::create.
M_Create ==
    /\ mpc = "new_create"
    /\ file' = File_create
    /\ fd' = [fd EXCEPT !["main"] = "open"]
    /\ mpc' = "new_write"
    /\ logged' = <<>>
    /\ UNCHANGED <<osLayout, now, config, lock, last_window_id, h, obs,
                   listenerVars, addVars, remembered, hkResult, log_file>>

\* new: the rest of save_to_file for the default configuration.
M_NewWrite ==
    /\ mpc = "new_write"
    /\ file' \in write_all(file, fd["main"], DefaultConfig)
    /\ fd' = [fd EXCEPT !["main"] = "closed"]
    /\ config' = DefaultConfig
    /\ mpc' = "run"
    /\ UNCHANGED <<osLayout, now, lock, last_window_id, h, obs,
                   listenerVars, addVars, remembered, hkResult, log_file>>
    /\ logged' = <<>>

\* run: start_keyboard_listener spawns the listener thread.
M_Run ==
    /\ mpc = "run"
    /\ mpc' = "setup"
    /\ lpc' = "spawned"
    /\ UNCHANGED <<file, osLayout, now, config, lock, last_window_id, h, obs,
                   keyVars, l, addVars, remembered, hkResult>>
    /\ logged' = <<>>
    /\ UNCHANGED <<fd, log_file>>

\* run: setup_x11_connection, intern_atom, change_window_attributes, flush;
\* each is followed by `?`, so a failure makes run and main return the
\* error.
M_Setup(ok) ==
    /\ mpc = "setup"
    /\ mpc' = IF ok THEN "initial" ELSE "failed"
    /\ UNCHANGED <<file, osLayout, now, config, lock, last_window_id, h, obs,
                   listenerVars, addVars, remembered, hkResult, fd, log_file>>
    /\ logged' = <<>>

\* main has returned the error of run: the runtime reports it and the
\* process ends, and the listener thread with it, wherever it is.
M_Exit ==
    /\ mpc = "failed"
    /\ mpc' = "exit_err"
    /\ lpc' = killed(lpc)
    /\ fd' = [fd EXCEPT !["listener"] = "closed"]
    /\ logged' = <<>>
    /\ UNCHANGED <<file, osLayout, now, config, lock, last_window_id, h, obs,
                   keyVars, l, addVars, remembered, hkResult, log_file>>

\* Why the main thread handles no window change: get_active_window returns
\* an error, wait_for_event returns an error, or the event is not a change
\* of _NET_ACTIVE_WINDOW.
NoWindowCauses == {"no_window", "event_error", "other_event"}

\* run: nothing is handled, for one of these causes.  Before the loop only
\* get_active_window is called.  The error of wait_for_event is logged, the
\* one of get_active_window is dropped by `if let Ok(win)`.
M_NoWindow(cause) ==
    /\ mpc \in {"initial", "wait"}
    /\ mpc = "initial" => cause = "no_window"
    /\ mpc' = "wait"
    /\ logged' = IF cause = "event_error" THEN <<"X11 event error">> ELSE <<>>
    /\ UNCHANGED <<file, osLayout, now, config, lock, last_window_id, h, obs,
                   listenerVars, addVars, remembered, hkResult>>
    /\ UNCHANGED <<fd, log_file>>

\* A slip in handle_window_change: the cursor is never compared.
same_window_never(cursor, window_id) == FALSE

\* handle_window_change: self.last_window_id == Some(window_id)
same_window(cursor, window_id) == cursor = Some(window_id)

\* A slip in handle_window_change: the cursor is left for later, to be set
\* once the switch has succeeded.
M_Notify_cursor_late(window_id, class) ==
    /\ mpc \in {"initial", "wait"}
    /\ IF same_window(last_window_id, window_id)
       THEN /\ mpc' = "wait"
            /\ UNCHANGED <<last_window_id, h, obs>>
       ELSE /\ UNCHANGED last_window_id
            /\ obs' = [NoObs EXCEPT !.class = class]
            /\ IF class = None
               THEN mpc' = "wait" /\ UNCHANGED h
               ELSE mpc' = "h_lock" /\ h' = [class |-> class[1], target |-> 0]
    /\ UNCHANGED <<file, osLayout, now, config, lock,
                   listenerVars, addVars, remembered, hkResult>>
    /\ logged' = IF ~same_window(last_window_id, window_id) /\ class = None
               THEN <<"Failed to get window property">>
               ELSE <<>>
    /\ UNCHANGED <<fd, log_file>>

\* run: get_active_window returns window_id and handle_window_change begins:
\* the comparison with the cursor, its update, and get_window_class, whose
\* result is class (None when the property cannot be read).
M_Notify(window_id, class) ==
    /\ mpc \in {"initial", "wait"}
    /\ IF same_window(last_window_id, window_id)
       THEN /\ mpc' = "wait"
            /\ UNCHANGED <<last_window_id, h, obs>>
       ELSE /\ last_window_id' = Some(window_id)
            /\ obs' = [NoObs EXCEPT !.class = class]
            /\ IF class = None
               THEN mpc' = "wait" /\ UNCHANGED h
               ELSE mpc' = "h_lock" /\ h' = [class |-> class[1], target |-> 0]
    /\ UNCHANGED <<file, osLayout, now, config, lock,
                   listenerVars, addVars, remembered, hkResult>>
    /\ logged' = IF ~same_window(last_window_id, window_id) /\ class = None
               THEN <<"Failed to get window property">>
               ELSE <<>>
    /\ UNCHANGED <<fd, log_file>>

\* handle_window_change: self.config.lock() and the lookup of the class.
\* Without an entry the guard is dropped at once; with one it is held.
H_Lock ==
    /\ mpc = "h_lock"
    /\ lock = "free"
    /\ LET target == get(config.window_layout_map, h.class) IN
       IF target = None
       THEN mpc' = "wait" /\ h' = NoHandle /\ UNCHANGED lock
       ELSE /\ h' = [h EXCEPT !.target = target[1]]
            /\ lock' = "main"
            /\ mpc' = "h_get"
    /\ UNCHANGED <<file, osLayout, now, config, last_window_id, obs,
                   listenerVars, addVars, remembered, hkResult>>
    /\ logged' = <<>>
    /\ UNCHANGED <<fd, log_file>>

\* A slip in handle_window_change: the layout is set whatever was read.
needs_switch_always(current_layout, target_layout) == TRUE

\* handle_window_change: current_layout != *target_layout
needs_switch(current_layout, target_layout) == current_layout # target_layout

\* handle_window_change: get_current_layout, called with the guard held.
\* res is "ok" (the adapter prints the layout), "fail" (None) or "hang" (the
\* adapter never returns).
H_Get(res) ==
    /\ mpc = "h_get"
    /\ CASE res = "ok" ->
              /\ obs' = [obs EXCEPT !.gets = @ + 1, !.getRes = Some(osLayout)]
              /\ IF needs_switch(osLayout, h.target)
                 THEN mpc' = "h_set" /\ UNCHANGED <<lock, h>>
                 ELSE mpc' = "wait" /\ lock' = "free" /\ h' = NoHandle
         [] res = "fail" ->
              /\ obs' = [obs EXCEPT !.gets = @ + 1, !.getRes = None]
              /\ mpc' = "wait"
              /\ lock' = "free"
              /\ h' = NoHandle
         [] OTHER ->
              /\ obs' = [obs EXCEPT !.gets = @ + 1]
              /\ mpc' = "hung"
              /\ UNCHANGED <<lock, h>>
    /\ UNCHANGED <<file, osLayout, now, config, last_window_id,
                   listenerVars, addVars, remembered, hkResult>>
    /\ logged' = IF res = "fail" THEN <<"Failed to execute xkblayout-state">>
               ELSE <<>>
    /\ UNCHANGED <<fd, log_file>>

\* A slip in handle_window_change: the layout read is set again.
switch_argument_current(target_layout, current_layout) == current_layout

\* handle_window_change: the argument of self.switch_layout(*target_layout)
switch_argument(target_layout, current_layout) == target_layout

\* handle_window_change: switch_layout(*target_layout)?, with the guard held.
\* res is "ok", "fail" (Err, which `?` hands to run, and run's `?` to main;
\* the guard is dropped on the way) or "hang".
H_Set(res) ==
    /\ mpc = "h_set"
    /\ LET arg == switch_argument(h.target, obs.getRes[1]) IN
       CASE res = "ok" ->
              /\ obs' = [obs EXCEPT !.sets = Append(@, arg)]
              /\ osLayout' = arg
              /\ mpc' = "wait"
              /\ lock' = "free"
              /\ h' = NoHandle
         [] res = "fail" ->
              /\ obs' = [obs EXCEPT !.sets = Append(@, arg), !.setFailed = TRUE]
              /\ mpc' = "failed"
              /\ lock' = "free"
              /\ h' = NoHandle
              /\ UNCHANGED osLayout
         [] OTHER ->
              /\ obs' = [obs EXCEPT !.sets = Append(@, arg)]
              /\ mpc' = "hung"
              /\ UNCHANGED <<osLayout, lock, h>>
    /\ UNCHANGED <<file, now, config, last_window_id,
                   listenerVars, addVars, remembered, hkResult>>
    /\ logged' = IF res = "fail" THEN <<"Failed to switch layout">> ELSE <<>>
    /\ UNCHANGED <<fd, log_file>>

(***************************************************************************)
(* Daemon, listener thread: the closure of start_keyboard_listener.        *)
(***************************************************************************)
\* A slip in the listener's start: last_hotkey is created as the epoch, not
\* as the time of the start.
L_Start_epoch(ok) ==
    /\ lpc = "spawned"
    /\ lpc' = IF ok THEN "idle" ELSE "ended"
    /\ pressed_keys' = {}
    /\ modifiers' = ModifierState_default
    /\ last_hotkey' = 0
    /\ UNCHANGED <<file, osLayout, now, daemonVars, l, lastPress, addVars,
                   remembered, hkResult, fd, log_file>>
    /\ logged' = IF ok THEN <<>> ELSE <<"Keyboard listener error">>

\* The thread starts: pressed_keys, modifiers and last_hotkey are created
\* and rdev::listen is called.  When listen returns an error, it is logged
\* and the thread ends; the daemon goes on without a listener.
L_Start(ok) ==
    /\ lpc = "spawned"
    /\ lpc' = IF ok THEN "idle" ELSE "ended"
    /\ pressed_keys' = {}
    /\ modifiers' = ModifierState_default
    /\ last_hotkey' = now
    /\ UNCHANGED <<file, osLayout, now, daemonVars, l, lastPress, addVars,
                   remembered, hkResult, fd, log_file>>
    /\ logged' = IF ok THEN <<>> ELSE <<"Keyboard listener error">>

\* EventType::KeyPress(key), up to config.lock().
L_KeyPress(key) ==
    /\ lpc = "idle"
    /\ pressed_keys' = pressed_keys \cup {key}
    /\ modifiers' = update(modifiers, key, TRUE)
    /\ lpc' = "l_lock"
    /\ UNCHANGED <<file, osLayout, now, daemonVars, last_hotkey, l, lastPress,
                   addVars, remembered, hkResult>>
    /\ logged' = <<>>
    /\ UNCHANGED <<fd, log_file>>

\* EventType::KeyRelease(key)
L_KeyRelease(key) ==
    /\ lpc = "idle"
    /\ pressed_keys' = pressed_keys \ {key}
    /\ modifiers' = update(modifiers, key, FALSE)
    /\ UNCHANGED <<file, osLayout, now, daemonVars, lpc, last_hotkey, l,
                   lastPress, addVars, remembered, hkResult>>
    /\ logged' = <<>>
    /\ UNCHANGED <<fd, log_file>>

\* SystemTime::duration_since: an error when `earlier` is later than self.
duration_since(t, earlier) == IF earlier <= t THEN Some(t - earlier) ELSE None

\* duration > Duration::from_secs(1)
cooldown_passed(duration) == duration > CooldownTicks

\* config.hotkeys.get("add_window") is Some(hotkey) and check_hotkey holds.
hotkey_matches ==
    LET hotkey == get(config.hotkeys, "add_window") IN
    /\ hotkey # None
    /\ check_hotkey(pressed_keys, modifiers, hotkey[1])

\* A slip in the callback: last_hotkey is set at every press that matches
\* the hotkey, before the gate, so that a suppressed press restarts the
\* cooldown.
L_Lock_clock_on_match ==
    /\ lpc = "l_lock"
    /\ lock = "free"
    /\ LET duration == duration_since(now, last_hotkey)
           fire == /\ hotkey_matches
                   /\ duration # None
                   /\ cooldown_passed(duration[1])
       IN
       /\ lastPress' = IF hotkey_matches
                       THEN Some([t |-> now, fired |-> fire])
                       ELSE lastPress
       /\ last_hotkey' = IF hotkey_matches THEN now ELSE last_hotkey
       /\ IF fire
          THEN /\ lock' = "listener"
               /\ lpc' = "l_resolve"
          ELSE /\ lpc' = "idle"
               /\ UNCHANGED lock
    /\ UNCHANGED <<file, osLayout, now, mpc, config, last_window_id, h, obs,
                   pressed_keys, modifiers, l, addVars, remembered, hkResult>>
    /\ logged' = <<>>
    /\ UNCHANGED <<fd, log_file>>

\* A slip in the callback: the configuration is read, and the remember
\* action entered, without waiting for the Mutex.
L_Lock_unguarded ==
    /\ lpc = "l_lock"
    /\ LET duration == duration_since(now, last_hotkey)
           fire == /\ hotkey_matches
                   /\ duration # None
                   /\ cooldown_passed(duration[1])
       IN
       /\ lastPress' = IF hotkey_matches
                       THEN Some([t |-> now, fired |-> fire])
                       ELSE lastPress
       /\ IF fire
          THEN /\ last_hotkey' = now
               /\ lock' = "listener"
               /\ lpc' = "l_resolve"
          ELSE /\ lpc' = "idle"
               /\ UNCHANGED <<last_hotkey, lock>>
    /\ UNCHANGED <<file, osLayout, now, mpc, config, last_window_id, h, obs,
                   pressed_keys, modifiers, l, addVars, remembered, hkResult>>
    /\ logged' = <<>>
    /\ UNCHANGED <<fd, log_file>>

\* KeyPress, from config.lock() on: the lookup of the hotkey, check_hotkey
\* and the gate on the time since last_hotkey.  When the hotkey fires the
\* guard stays held for the rest of the callback.
L_Lock ==
    /\ lpc = "l_lock"
    /\ lock = "free"
    /\ LET duration == duration_since(now, last_hotkey)
           fire == /\ hotkey_matches
                   /\ duration # None
                   /\ cooldown_passed(duration[1])
       IN
       /\ lastPress' = IF hotkey_matches
                       THEN Some([t |-> now, fired |-> fire])
                       ELSE lastPress
       /\ IF fire
          THEN /\ last_hotkey' = now
               /\ lock' = "listener"
               /\ lpc' = "l_resolve"
          ELSE /\ lpc' = "idle"
               /\ UNCHANGED <<last_hotkey, lock>>
    /\ UNCHANGED <<file, osLayout, now, mpc, config, last_window_id, h, obs,
                   pressed_keys, modifiers, l, addVars, remembered, hkResult>>
    /\ logged' = <<>>
    /\ UNCHANGED <<fd, log_file>>

\* The remember action up to the layout: x11rb::connect, the atoms, the
\* active window, its class, then xkblayout-state.  Any failure returns
\* from the callback.
L_ResolveFail ==
    /\ lpc = "l_resolve"
    /\ lpc' = "idle"
    /\ lock' = "free"
    /\ UNCHANGED <<file, osLayout, now, mpc, config, last_window_id, h, obs,
                   keyVars, l, addVars, remembered, hkResult>>
    /\ logged' = <<"Failed to get active window">>
    /\ UNCHANGED <<fd, log_file>>

\* The same, with window_class and layout resolved.
L_Resolve(class) ==
    /\ lpc = "l_resolve"
    /\ l' = [l EXCEPT !.class = class, !.layout = osLayout]
    /\ lpc' = "l_load"
    /\ UNCHANGED <<file, osLayout, now, daemonVars, keyVars, addVars,
                   remembered, hkResult>>
    /\ logged' = <<>>
    /\ UNCHANGED <<fd, log_file>>

\* AppConfig::load_from_file(&config_path): the test path.exists(); for a
\* missing file the warning is written.
L_Load ==
    /\ lpc = "l_load"
    /\ lpc' = IF file.exists THEN "l_read" ELSE "l_def_create"
    /\ logged' = IF file.exists THEN <<>> ELSE <<"Creating new config file">>
    /\ UNCHANGED <<file, osLayout, now, daemonVars, keyVars, l, addVars,
                   remembered, hkResult, fd, log_file>>

\* load_from_file of a file that was there: fs::read_to_string and
\* serde_json::from_str, then the insert into local_config.  An error of
\* either is logged and the callback returns.
L_Read ==
    /\ lpc = "l_read"
    /\ IF file.exists /\ from_str(file.text) # None
       THEN /\ l' = [l EXCEPT !.cfg =
                       [from_str(file.text)[1] EXCEPT
                          !.window_layout_map = insert(@, l.class, l.layout)]]
            /\ lpc' = "l_create"
            /\ logged' = <<>>
            /\ UNCHANGED lock
       ELSE /\ lpc' = "idle"
            /\ lock' = "free"
            /\ l' = NoLocals
            /\ logged' = <<"Failed to load config">>
    /\ UNCHANGED <<file, osLayout, now, mpc, config, last_window_id, h, obs,
                   keyVars, addVars, remembered, hkResult, fd, log_file>>

\* load_from_file of a missing file: save_to_file of the default
\* configuration begins with File::create.
L_DefCreate ==
    /\ lpc = "l_def_create"
    /\ file' = File_create
    /\ fd' = [fd EXCEPT !["listener"] = "open"]
    /\ lpc' = "l_def_write"
    /\ logged' = <<>>
    /\ UNCHANGED <<osLayout, now, daemonVars, keyVars, l, addVars,
                   remembered, hkResult, log_file>>

\* load_from_file of a missing file: the default configuration is written,
\* returned, and the mapping inserted into it.
L_DefWrite ==
    /\ lpc = "l_def_write"
    /\ file' \in write_all(file, fd["listener"], DefaultConfig)
    /\ fd' = [fd EXCEPT !["listener"] = "closed"]
    /\ l' = [l EXCEPT !.cfg = [DefaultConfig EXCEPT
                  !.window_layout_map = insert(@, l.class, l.layout)]]
    /\ lpc' = "l_create"
    /\ UNCHANGED <<osLayout, now, daemonVars, keyVars, addVars,
                   remembered, hkResult, log_file>>
    /\ logged' = <<>>

\* local_config.save_to_file: File::create.
L_Create ==
    /\ lpc = "l_create"
    /\ file' = File_create
    /\ fd' = [fd EXCEPT !["listener"] = "open"]
    /\ l' = [l EXCEPT !.prev = file.text]
    /\ lpc' = "l_write"
    /\ UNCHANGED <<osLayout, now, daemonVars, keyVars, addVars,
                   remembered, hkResult, log_file>>
    /\ logged' = <<>>

\* A slip in the remember action: the saved configuration also replaces the
\* shared one.
L_Write_shared ==
    /\ lpc = "l_write"
    /\ file' \in write_all(file, fd["listener"], l.cfg)
    /\ fd' = [fd EXCEPT !["listener"] = "closed"]
    /\ lpc' = "idle"
    /\ lock' = "free"
    /\ remembered' = [remembered EXCEPT !["listener"] =
                        IF fd["listener"] = "open" THEN Some(l.class) ELSE None]
    /\ l' = NoLocals
    /\ config' = l.cfg
    /\ UNCHANGED <<osLayout, now, mpc, last_window_id, h, obs,
                   keyVars, addVars, hkResult, log_file>>
    /\ logged' = <<>>

\* local_config.save_to_file: write_all, sync_all; the callback returns.
L_Write ==
    /\ lpc = "l_write"
    /\ file' \in write_all(file, fd["listener"], l.cfg)
    /\ fd' = [fd EXCEPT !["listener"] = "closed"]
    /\ lpc' = "idle"
    /\ lock' = "free"
    /\ remembered' = [remembered EXCEPT !["listener"] =
                        IF fd["listener"] = "open" THEN Some(l.class) ELSE None]
    /\ l' = NoLocals
    /\ UNCHANGED <<osLayout, now, mpc, config, last_window_id, h, obs,
                   keyVars, addVars, hkResult, log_file>>
    /\ logged' = <<>>

(***************************************************************************)
(* The `--add` process: main with the --add argument.                      *)
(***************************************************************************)
\* The process is started.
A_Start ==
    /\ apc = "off"
    /\ addRuns < MaxAddRuns
    /\ addRuns' = addRuns + 1
    /\ apc' = "a_new"
    /\ a' = NoLocals
    /\ UNCHANGED <<file, osLayout, now, daemonVars, listenerVars,
                   remembered, hkResult>>
    /\ logged' = <<>>
    /\ UNCHANGED <<fd, log_file>>

\* new, as in the daemon: a log file that is at the path is removed.
A_LogRemove ==
    /\ apc = "a_new"
    /\ apc' = "a_log"
    /\ log_file' = NoLogFile
    /\ logged' = <<>>
    /\ UNCHANGED <<file, osLayout, now, daemonVars, listenerVars, a, addRuns,
                   remembered, hkResult, fd>>

\* new: File::create of the log file and the logger on it.
A_LogCreate ==
    /\ apc = "a_log"
    /\ apc' = "a_load"
    /\ log_file' = Log_create(log_file, "add")
    /\ logged' = <<>>
    /\ UNCHANGED <<file, osLayout, now, daemonVars, listenerVars, a, addRuns,
                   remembered, hkResult, fd>>

\* new: load_from_file tests path.exists(); for a missing file the warning
\* is written.
A_New ==
    /\ apc = "a_load"
    /\ apc' = IF file.exists THEN "a_read" ELSE "a_def_create"
    /\ logged' = IF file.exists THEN <<>> ELSE <<"Creating new config file">>
    /\ UNCHANGED <<file, osLayout, now, daemonVars, listenerVars, a, addRuns,
                   remembered, hkResult, fd, log_file>>

\* new: load_from_file of a file that was there: fs::read_to_string and
\* serde_json::from_str.  An error of either ends the process.
A_Read ==
    /\ apc = "a_read"
    /\ IF file.exists /\ from_str(file.text) # None
       THEN apc' = "a_resolve" /\ a' = [a EXCEPT !.cfg = from_str(file.text)[1]]
       ELSE apc' = "a_err" /\ UNCHANGED a
    /\ logged' = <<>>
    /\ UNCHANGED <<file, osLayout, now, daemonVars, listenerVars, addRuns,
                   remembered, hkResult, fd, log_file>>

\* new: load_from_file of a missing file: save_to_file of the default
\* configuration begins with File::create.
A_DefCreate ==
    /\ apc = "a_def_create"
    /\ file' = File_create
    /\ fd' = [fd EXCEPT !["add"] = "open"]
    /\ apc' = "a_def_write"
    /\ logged' = <<>>
    /\ UNCHANGED <<osLayout, now, daemonVars, listenerVars, a, addRuns,
                   remembered, hkResult, log_file>>

\* new: the rest of save_to_file for the default configuration.
A_DefWrite ==
    /\ apc = "a_def_write"
    /\ file' \in write_all(file, fd["add"], DefaultConfig)
    /\ fd' = [fd EXCEPT !["add"] = "closed"]
    /\ a' = [a EXCEPT !.cfg = DefaultConfig]
    /\ apc' = "a_resolve"
    /\ UNCHANGED <<osLayout, now, daemonVars, listenerVars, addRuns,
                   remembered, hkResult, log_file>>
    /\ logged' = <<>>

\* setup_x11_connection or add_current_window fails before the insert: no
\* connection, no active window, no window class, or no layout.
A_ResolveFail ==
    /\ apc = "a_resolve"
    /\ apc' = "a_err"
    /\ UNCHANGED <<file, osLayout, now, daemonVars, listenerVars, a, addRuns,
                   remembered, hkResult>>
    /\ logged' \in {<<>>, <<"Failed to get active window">>}
    /\ UNCHANGED <<fd, log_file>>

\* add_current_window: the window class and the layout are resolved, the
\* process's own Mutex is locked and the mapping inserted.
A_Resolve(class) ==
    /\ apc = "a_resolve"
    /\ a' = [a EXCEPT !.class = class, !.layout = osLayout,
                      !.cfg.window_layout_map = insert(@, class, osLayout)]
    /\ apc' = "a_create"
    /\ UNCHANGED <<file, osLayout, now, daemonVars, listenerVars, addRuns,
                   remembered, hkResult>>
    /\ logged' = <<>>
    /\ UNCHANGED <<fd, log_file>>

\* add_current_window: config.save_to_file: File::create.
A_Create ==
    /\ apc = "a_create"
    /\ file' = File_create
    /\ fd' = [fd EXCEPT !["add"] = "open"]
    /\ a' = [a EXCEPT !.prev = file.text]
    /\ apc' = "a_write"
    /\ UNCHANGED <<osLayout, now, daemonVars, listenerVars, addRuns,
                   remembered, hkResult, log_file>>
    /\ logged' = <<>>

\* add_current_window: config.save_to_file: write_all, sync_all; Ok(()).
A_Write ==
    /\ apc = "a_write"
    /\ file' \in write_all(file, fd["add"], a.cfg)
    /\ fd' = [fd EXCEPT !["add"] = "closed"]
    /\ apc' = "a_done"
    /\ remembered' = [remembered EXCEPT !["add"] =
                        IF fd["add"] = "open" THEN Some(a.class) ELSE None]
    /\ a' = NoLocals
    /\ UNCHANGED <<osLayout, now, daemonVars, listenerVars, addRuns, hkResult,
                   log_file>>
    /\ logged' = <<>>

\* The process has ended; another one can be started.
A_Exit ==
    /\ apc \in {"a_done", "a_err"}
    /\ apc' = "off"
    /\ UNCHANGED <<file, osLayout, now, daemonVars, listenerVars, a, addRuns,
                   remembered, hkResult>>
    /\ logged' = <<>>
    /\ UNCHANGED <<fd, log_file>>

(***************************************************************************)
(* Specifications.                                                         *)
(***************************************************************************)
\* The keys of the default hotkey.
HotkeyKeys == {"ControlLeft", "ShiftLeft", "KeyQ"}

OptionalClasses == {None} \cup {Some(c) : c \in Classes}

\* The steps of the daemon's main thread.
MainNext ==
    \/ M_LogRemove
    \/ M_LogCreate
    \/ M_New
    \/ M_Read
    \/ M_Create
    \/ M_NewWrite
    \/ M_Run
    \/ \E ok \in BOOLEAN : M_Setup(ok)
    \/ M_Exit
    \/ \E cause \in NoWindowCauses : M_NoWindow(cause)

\* The steps of handle_window_change.
FocusNext ==
    \/ \E w \in WindowIds : \E c \in OptionalClasses : M_Notify(w, c)
    \/ H_Lock
    \/ \E res \in {"ok", "fail", "hang"} : H_Get(res)
    \/ \E res \in {"ok", "fail", "hang"} : H_Set(res)

\* The steps of the listener's remember action.
RememberNext ==
    \/ L_ResolveFail
    \/ \E v \in WmClassValues : L_Resolve(get_window_class(v)[1])
    \/ L_Load
    \/ L_Read
    \/ L_Create
    \/ L_Write

\* The steps of the `--add` process.
AddNext ==
    \/ A_Start
    \/ A_LogRemove
    \/ A_LogCreate
    \/ A_New
    \/ A_Read
    \/ A_DefCreate
    \/ A_DefWrite
    \/ A_ResolveFail
    \/ \E v \in WmClassValues : A_Resolve(get_window_class(v)[1])
    \/ A_Create
    \/ A_Write
    \/ A_Exit

\* The daemon alone, from its start: focus changes, the keys of the default
\* hotkey, the user switching the layout.  Time advances by more than the
\* cooldown at once.
Next ==
    \/ \E lay \in Layouts : UserSwitchLayout(lay)
    \/ Tick(CooldownTicks + 1)
    \/ MainNext
    \/ FocusNext
    \/ \E ok \in BOOLEAN : L_Start(ok)
    \/ \E k \in HotkeyKeys : L_KeyPress(k)
    \/ \E k \in HotkeyKeys : L_KeyRelease(k)
    \/ L_Lock
    \/ RememberNext

Spec == Init /\ [][Next]_vars

\* The writers of the file: the daemon, with no focus change delivered, and
\* an `--add` process beside it.  The layout stays as it is at the start and
\* the user leaves the file alone.
ConcurrentNext ==
    \/ Tick(CooldownTicks + 1)
    \/ MainNext
    \/ \E ok \in BOOLEAN : L_Start(ok)
    \/ \E k \in HotkeyKeys : L_KeyPress(k)
    \/ \E k \in HotkeyKeys : L_KeyRelease(k)
    \/ L_Lock
    \/ RememberNext
    \/ AddNext

SpecConcurrent == Init /\ [][ConcurrentNext]_vars

\* The three contexts that load the file, and the user, who may remove it:
\* the daemon and an `--add` process beside it, with one window class and
\* the layout left as it is.
LoadersNext ==
    \/ UserRemoveFile
    \/ Tick(CooldownTicks + 1)
    \/ MainNext
    \/ \E ok \in BOOLEAN : L_Start(ok)
    \/ \E k \in HotkeyKeys : L_KeyPress(k)
    \/ \E k \in HotkeyKeys : L_KeyRelease(k)
    \/ L_Lock
    \/ L_ResolveFail
    \/ L_Resolve("foo")
    \/ L_Load
    \/ L_Read
    \/ L_DefCreate
    \/ L_DefWrite
    \/ L_Create
    \/ L_Write
    \/ A_Start
    \/ A_LogRemove
    \/ A_LogCreate
    \/ A_New
    \/ A_Read
    \/ A_DefCreate
    \/ A_DefWrite
    \/ A_ResolveFail
    \/ A_Resolve("foo")
    \/ A_Create
    \/ A_Write
    \/ A_Exit

SpecLoaders == Init /\ [][LoadersNext]_vars

\* The listener thread alone, in a daemon that has started with the default
\* configuration: more keys, and time in steps of 100 ms.
ListenerKeys == {"ControlLeft", "ShiftLeft", "ShiftRight", "KeyQ"}

KeysInit ==
    /\ file \in saved(DefaultConfig)
    /\ osLayout = 0
    /\ now = 0
    /\ mpc = "wait"
    /\ config = DefaultConfig
    /\ lock = "free"
    /\ last_window_id = None
    /\ h = NoHandle
    /\ obs = NoObs
    /\ lpc = "spawned"
    /\ pressed_keys = {}
    /\ modifiers = ModifierState_default
    /\ last_hotkey = 0
    /\ l = NoLocals
    /\ lastPress = None
    /\ apc = "off"
    /\ a = NoLocals
    /\ addRuns = 0
    /\ remembered = [wr \in {"listener", "add"} |-> None]
    /\ hkResult = None
    /\ logged = <<>>
    /\ fd = [c \in Contexts |-> "closed"]
    /\ log_file = Log_create(NoLogFile, "daemon")

KeysNext ==
    \/ Tick(1)
    \/ \E ok \in BOOLEAN : L_Start(ok)
    \/ \E k \in ListenerKeys : L_KeyPress(k)
    \/ \E k \in ListenerKeys : L_KeyRelease(k)
    \/ L_Lock
    \/ L_ResolveFail
    \/ L_Resolve("foo")
    \/ L_Load
    \/ L_Read
    \/ L_Create
    \/ L_Write

SpecKeys == KeysInit /\ [][KeysNext]_vars

\* check_hotkey as a function: the hotkey string, the modifier flags and the
\* held keys are drawn, and the function is applied once.
MaxPieces == 3

HotkeyStrings == UNION { [1..n -> Words \cup {" "}] : n \in 0..MaxPieces }

HotkeyInit ==
    /\ file = AbsentFile
    /\ osLayout = 0
    /\ now = 0
    /\ mpc = "wait"
    /\ \E s \in HotkeyStrings :
         config = [DefaultConfig EXCEPT !.hotkeys["add_window"] = s]
    /\ lock = "free"
    /\ last_window_id = None
    /\ h = NoHandle
    /\ obs = NoObs
    /\ lpc = "idle"
    /\ pressed_keys \in SUBSET {"KeyQ", "KeyA"}
    /\ modifiers \in [Roles -> BOOLEAN]
    /\ last_hotkey = 0
    /\ l = NoLocals
    /\ lastPress = None
    /\ apc = "off"
    /\ a = NoLocals
    /\ addRuns = 0
    /\ remembered = [wr \in {"listener", "add"} |-> None]
    /\ hkResult = None
    /\ logged = <<>>
    /\ fd = [c \in Contexts |-> "closed"]
    /\ log_file = Log_create(NoLogFile, "daemon")

ApplyCheckHotkey ==
    /\ hkResult = None
    /\ hkResult' = Some(check_hotkey(pressed_keys, modifiers,
                                     config.hotkeys["add_window"]))
    /\ UNCHANGED <<file, osLayout, now, daemonVars, listenerVars, addVars,
                   remembered>>
    /\ UNCHANGED logged
    /\ UNCHANGED <<fd, log_file>>

SpecHotkey == HotkeyInit /\ [][ApplyCheckHotkey]_vars

(***************************************************************************)
(* Properties.                                                             *)
(***************************************************************************)
\* The positions of the main thread at which no handle_window_change call
\* is in progress, or the one in progress will issue nothing more.
HandlingOver == mpc \in {"wait", "failed", "exit_err", "hung"}

\* The entry of the class of the last handled window in the daemon's map.
MappedLayout ==
    IF obs.class = None THEN None
    ELSE get(config.window_layout_map, obs.class[1])

\* C1: when a focus notification for a window other than the cursor has been
\* handled, the class of the window has an entry L in the in-memory map and
\* the adapter reported a layout other than L, then exactly one set command
\* was issued, and it carries L.
C1_OneSetWithMappedLayout ==
    (/\ HandlingOver
     /\ MappedLayout # None
     /\ obs.getRes # None
     /\ obs.getRes[1] # MappedLayout[1])
        => obs.sets = <<MappedLayout[1]>>

\* A handled change to window class "foo", mapped to 1, while the adapter
\* reported 0: set(1) was issued.
C1_Witness ==
    /\ mpc = "wait"
    /\ obs.class = Some("foo")
    /\ MappedLayout = Some(1)
    /\ obs.getRes = Some(0)
    /\ obs.sets = <<1>>

\* C2: between two changes of the window identity at most one set call is
\* issued, and a notification whose window identity equals the cursor
\* changes nothing: no get, no set, no state, and no record is written.
C2_IdempotentFocus ==
    /\ [](Len(obs.sets) <= 1)
    /\ [][\A w \in WindowIds : \A c \in OptionalClasses :
            (mpc = "wait" /\ last_window_id = Some(w) /\ M_Notify(w, c))
                => (UNCHANGED stateVars /\ logged' = <<>>)]_vars

\* The cursor is window 1, one set call was issued for it, and the user has
\* since switched the layout away: a repeated notification for window 1
\* finds a mismatch again.
C2_Witness ==
    /\ mpc = "wait"
    /\ last_window_id = Some(1)
    /\ Len(obs.sets) = 1
    /\ osLayout # obs.sets[1]

\* C3: a set call set(L) is issued only when the get of the same handling
\* returned a layout other than L; when the get returned the mapped layout,
\* no set call is issued.
C3_SetOnlyOnMismatch ==
    /\ mpc = "h_set" => (obs.getRes # None /\ obs.getRes[1] # h.target)
    /\ \A i \in DOMAIN obs.sets :
         obs.getRes # None /\ obs.getRes[1] # obs.sets[i]
    /\ (HandlingOver /\ obs.getRes # None /\ obs.getRes = MappedLayout)
         => obs.sets = <<>>

\* A handled change to a window whose class is mapped to the layout that
\* the adapter already reported: no set call.
C3_Witness ==
    /\ mpc = "wait"
    /\ obs.gets = 1
    /\ obs.getRes = Some(1)
    /\ MappedLayout = Some(1)
    /\ obs.sets = <<>>

\* What a lookup of class in a freshly loaded file returns.
FileLayout(f, class) ==
    IF f.exists /\ from_str(f.text) # None
    THEN get(from_str(f.text)[1].window_layout_map, class)
    ELSE None

\* C4: after a successful remember action of the running daemon for class c
\* while the layout is lay, a lookup of c in the AppConfig that
\* handle_window_change reads returns lay, and so does a fresh load of the
\* file.
C4_RememberWritesThrough ==
    [][(L_Write /\ mpc = "wait") =>
         /\ get(config'.window_layout_map, l.class) = Some(l.layout)
         /\ FileLayout(file', l.class) = Some(l.layout)]_vars

\* The modifier roles that a hotkey string names, and its trigger key.
ModifierWords == {"shift", "ctrl", "alt", "meta", "super", "win"}
RoleOf(word) == IF word \in {"super", "win"} THEN "meta" ELSE word
IsModifier(word) == to_lowercase(word) \in ModifierWords
NamedRoles(str) ==
    LET parts == split_whitespace(str) IN
    { RoleOf(to_lowercase(parts[i])) : i \in { j \in DOMAIN parts : IsModifier(parts[j]) } }
ActiveRoles(m) == { r \in Roles : m[r] }
TriggerKey(str) ==
    LET parts == split_whitespace(str)
        keys == { j \in DOMAIN parts : ~IsModifier(parts[j]) }
    IN  IF keys = {} THEN None
        ELSE str_to_key(parts[CHOOSE j \in keys : \A k \in keys : k <= j])

\* C5: check_hotkey returns true iff the set of modifier roles named in the
\* hotkey string equals the set of active modifier flags and the trigger key
\* of the string is held.
C5_ExactModifierMatch ==
    hkResult # None =>
        LET str == config.hotkeys["add_window"] IN
        hkResult[1] <=>
            /\ NamedRoles(str) = ActiveRoles(modifiers)
            /\ TriggerKey(str) # None
            /\ TriggerKey(str)[1] \in pressed_keys

\* check_hotkey returned true for "win shift q" with exactly meta and shift
\* active and q held.
C5_Witness ==
    /\ hkResult = Some(TRUE)
    /\ config.hotkeys["add_window"] = <<"win", "shift", "q">>
    /\ ActiveRoles(modifiers) = {"meta", "shift"}
    /\ "KeyQ" \in pressed_keys

\* C6: of two matching key presses that follow each other 200 ms apart
\* exactly one fires the remember action, and of two that are 1.1 s apart
\* both fire.
C6_Debounce ==
    [][(L_Lock /\ hotkey_matches /\ lastPress # None) =>
         LET gap == lastPress'[1].t - lastPress[1].t
             n == (IF lastPress[1].fired THEN 1 ELSE 0)
                  + (IF lastPress'[1].fired THEN 1 ELSE 0)
         IN  /\ gap = 2 => n = 1
             /\ gap = CooldownTicks + 1 => n = 2]_vars

\* C7: when the listener's remember action and the `--add` process have
\* both completed a save, for different window classes, the file holds both
\* entries.
C7_NoLostUpdate ==
    (/\ lpc = "idle"
     /\ apc \in {"a_done", "off"}
     /\ remembered["listener"] # None
     /\ remembered["add"] # None
     /\ remembered["listener"] # remembered["add"])
        => /\ FileLayout(file, remembered["listener"][1]) # None
           /\ FileLayout(file, remembered["add"][1]) # None

\* C8: while an adapter call of handle_window_change does not return, the
\* listener can go on with a key press that it has received.
C8_HangBlocksOnlyReactor ==
    (mpc = "hung" /\ lpc = "l_lock") => ENABLED L_Lock

\* C9: a failed get or set of the adapter does not stop the main thread's
\* loop: it goes on waiting for the next focus notification.
C9_ReactorSurvivesAdapterFailure ==
    /\ (obs.gets = 1 /\ obs.getRes = None /\ mpc # "hung")
         => mpc \in {"wait", "h_lock", "h_get", "h_set"}
    /\ obs.setFailed => mpc \in {"wait", "h_lock", "h_get", "h_set"}

\* C10: at every point of a save_to_file the file holds either the complete
\* content it had before or the complete new content.
C10_SaveIsAtomic ==
    /\ lpc = "l_write" =>
         (file.text = l.prev \/ file.text \in to_string_pretty(l.cfg))
    /\ apc = "a_write" =>
         (file.text = a.prev \/ file.text \in to_string_pretty(a.cfg))

\* The configuration that the specification gives for a missing file: one
\* hotkey, add_window -> "ctrl shift q", and no window mapping.
IsBootstrapConfig(cfg) ==
    /\ DOMAIN cfg.hotkeys = {"add_window"}
    /\ cfg.hotkeys["add_window"] = <<"ctrl", " ", "shift", " ", "q">>
    /\ DOMAIN cfg.window_layout_map = {}

\* C11: a load_from_file that finds no file returns the configuration with
\* the single hotkey add_window -> "ctrl shift q" and an empty window map,
\* and when it returns the file holds that configuration: a second load
\* returns an equal one.  This is so at each of the three places that load:
\* new in the daemon, new in the `--add` process, and the listener's
\* remember action (which then inserts its mapping into what it loaded).
C11_DefaultBootstrap ==
    [][/\ M_NewWrite =>
            /\ IsBootstrapConfig(config')
            /\ file'.exists
            /\ from_str(file'.text) = Some(config')
       /\ A_DefWrite =>
            /\ IsBootstrapConfig(a'.cfg)
            /\ file'.exists
            /\ from_str(file'.text) = Some(a'.cfg)
       /\ L_DefWrite =>
            /\ file'.exists
            /\ from_str(file'.text) # None
            /\ IsBootstrapConfig(from_str(file'.text)[1])
            /\ l'.cfg = [from_str(file'.text)[1] EXCEPT
                           !.window_layout_map = insert(@, l.class, l.layout)]]_vars

\* C12: serialization is stable.  A save that writes a configuration equal
\* to the one that the replaced content of the file parses to (the file was
\* saved, loaded, and is saved again with nothing new in it) writes the same
\* text, and every saved text parses back to the configuration saved.
C12_RoundTripStable ==
    [][/\ L_Write =>
            /\ from_str(file'.text) = Some(l.cfg)
            /\ from_str(l.prev) = Some(l.cfg) => file'.text = l.prev
       /\ A_Write =>
            /\ from_str(file'.text) = Some(a.cfg)
            /\ from_str(a.prev) = Some(a.cfg) => file'.text = a.prev]_vars

\* The file is there and its content is not a JSON document: the document
\* is not complete, or bytes follow it.
Malformed(f) == f.exists /\ ~(f.text.complete /\ f.text.tail = 0)

\* C13: a load_from_file that finds a malformed file returns the parse error
\* and leaves the file as it is: in new the process ends with the error, in
\* the listener's remember action the callback returns with nothing written.
\* The default configuration is written only when the test of the path
\* found the file missing.
C13_MalformedIsHardError ==
    [][/\ (M_Read /\ Malformed(file)) =>
            (mpc' = "exit_err" /\ UNCHANGED <<file, config>>)
       /\ (A_Read /\ Malformed(file)) =>
            (apc' = "a_err" /\ UNCHANGED file)
       /\ (L_Read /\ Malformed(file)) =>
            (lpc' = "idle" /\ l' = NoLocals /\ UNCHANGED <<file, config>>)
       /\ (M_New /\ file.exists) => (mpc' = "new_read" /\ UNCHANGED file)
       /\ (A_New /\ file.exists) => (apc' = "a_read" /\ UNCHANGED file)
       /\ (L_Load /\ file.exists) => (lpc' = "l_read" /\ UNCHANGED file)
       /\ (M_New /\ mpc' = "new_create") => ~file.exists
       /\ (A_New /\ apc' = "a_def_create") => ~file.exists
       /\ (L_Load /\ lpc' = "l_def_create") => ~file.exists]_vars

\* The daemon found an empty config.json when it started: it has ended with
\* the error before run, and the file is still empty.
C13_Witness ==
    /\ mpc = "exit_err"
    /\ lpc = "off"
    /\ Malformed(file)
    /\ config = DefaultConfig

\* after is before with the entry class -> layout inserted or overwritten:
\* every other window entry and every hotkey as in before.
Upserted(before, after, class, layout) ==
    /\ DOMAIN after.window_layout_map = DOMAIN before.window_layout_map \cup {class}
    /\ after.window_layout_map[class] = layout
    /\ \A k \in DOMAIN before.window_layout_map \ {class} :
         after.window_layout_map[k] = before.window_layout_map[k]
    /\ after.hotkeys = before.hotkeys

\* C14: a remember action for (class, layout) is an insert-or-overwrite in
\* the store that it writes.  The insert of add_current_window leaves every
\* other entry of the in-memory configuration as it was; and a save of
\* either path leaves in the file the entries that the file held just
\* before that save, with class -> layout inserted or overwritten.
C14_UpsertFrame ==
    [][/\ \A c \in Classes :
            A_Resolve(c) => Upserted(a.cfg, a'.cfg, c, osLayout)
       /\ (A_Write /\ from_str(a.prev) # None) =>
            /\ from_str(file'.text) # None
            /\ Upserted(from_str(a.prev)[1], from_str(file'.text)[1],
                        a.class, a.layout)
       /\ (L_Write /\ from_str(l.prev) # None) =>
            /\ from_str(file'.text) # None
            /\ Upserted(from_str(l.prev)[1], from_str(file'.text)[1],
                        l.class, l.layout)]_vars

\* The key under which a window without a class string would be entered.
NoClassKey == get_window_class(<<>>)[1]

\* C15: a remember action whose window or layout cannot be resolved ends
\* with nothing changed: the steps that fail to resolve leave the file and
\* the in-memory configurations as they are, and a window for which no class
\* string is available gets no entry under any key, neither in the file nor
\* in the configuration of the `--add` process.
C15_RememberFailsFast ==
    /\ [][/\ L_ResolveFail => UNCHANGED <<file, config>>
          /\ A_ResolveFail => (apc' = "a_err" /\ UNCHANGED <<file, config, a>>)]_vars
    /\ [](/\ FileLayout(file, NoClassKey) = None
          /\ get(a.cfg.window_layout_map, NoClassKey) = None)

\* The positions at which a thread of the daemon holds the MutexGuard of the
\* shared AppConfig.  The lookups themselves are the steps H_Lock and L_Lock,
\* which take the Mutex first.
MainInSection == mpc \in {"h_get", "h_set", "hung"}
ListenerInSection ==
    lpc \in {"l_resolve", "l_load", "l_read", "l_def_create", "l_def_write",
            "l_create", "l_write"}

\* C16: the accesses to the shared AppConfig exclude each other: at most one
\* of the two threads of the daemon is inside a section that holds the
\* configuration, and it is the one that holds the Mutex.
C16_ConfigAccessExclusive ==
    /\ ~(MainInSection /\ ListenerInSection)
    /\ MainInSection => lock = "main"
    /\ ListenerInSection => lock = "listener"

\* The main thread holds the configuration, about to read the layout, while
\* the listener has received a key press and waits in config.lock().
C16_Witness ==
    /\ mpc = "h_get"
    /\ lock = "main"
    /\ lpc = "l_lock"

\* C17: a notification for a window w other than the cursor sets the cursor
\* to w before the mapping is consulted and before any adapter call; nothing
\* else in handle_window_change changes the cursor, so it is w whatever the
\* outcome; and a repeated notification for w issues no adapter call.
C17_CursorFirst ==
    [][/\ \A w \in WindowIds : \A c \in OptionalClasses :
            /\ (M_Notify(w, c) /\ ~same_window(last_window_id, w)) =>
                 /\ last_window_id' = Some(w)
                 /\ obs'.gets = 0
                 /\ obs'.sets = <<>>
                 /\ lock' = lock
            /\ (M_Notify(w, c) /\ same_window(last_window_id, w)) =>
                 /\ mpc' = "wait"
                 /\ UNCHANGED <<last_window_id, obs, osLayout, lock>>
       /\ (mpc \in {"h_lock", "h_get", "h_set", "hung"}) =>
            UNCHANGED last_window_id]_vars

\* The change to window 1, of a mapped class, has been handled and the
\* layout could not be read: the cursor is window 1 all the same.
C17_Witness ==
    /\ mpc = "wait"
    /\ last_window_id = Some(1)
    /\ MappedLayout # None
    /\ obs.gets = 1
    /\ obs.getRes = None
    /\ obs.sets = <<>>

\* The last handled window has no class, or its class has no entry in the
\* map of the shared configuration.
Unmapped ==
    \/ obs.class = None
    \/ obs.class[1] \notin DOMAIN config.window_layout_map

\* C18: for a focus notification whose window class cannot be resolved or
\* has no entry in the mapping, handle_window_change issues no get and no
\* set, and returns Ok: the main thread goes on to wait for the next event.
C18_NoMappingNoAdapterCall ==
    /\ []((last_window_id # None /\ Unmapped) =>
            /\ obs.gets = 0
            /\ obs.sets = <<>>
            /\ mpc \in {"h_lock", "wait"})
    /\ [][/\ \A w \in WindowIds :
               (M_Notify(w, None) /\ ~same_window(last_window_id, w)) =>
                   (mpc' = "wait" /\ UNCHANGED <<osLayout, lock>>)
          /\ (H_Lock /\ h.class \notin DOMAIN config.window_layout_map) =>
               (mpc' = "wait" /\ UNCHANGED <<osLayout, lock, obs>>)]_vars

\* The configuration maps foo, and the change to a window of class "" has
\* been handled: nothing was issued and the main thread waits again.
C18_Witness ==
    /\ mpc = "wait"
    /\ last_window_id # None
    /\ obs.class = Some("")
    /\ DOMAIN config.window_layout_map = {"foo"}
    /\ obs.gets = 0
    /\ obs.sets = <<>>

\* The two physical variants of each modifier role.
Variants(role) ==
    CASE role = "shift" -> {"ShiftLeft", "ShiftRight"}
      [] role = "ctrl"  -> {"ControlLeft", "ControlRight"}
      [] role = "alt"   -> {"Alt", "AltGr"}
      [] role = "meta"  -> {"MetaLeft", "MetaRight"}

\* C19: each key event sets the flag of the role of its key to is_press,
\* whatever the flag was and whether or not the other variant is held, and
\* leaves the other flags as they are; nothing but a key event changes a
\* flag, and all flags are false when the listener starts.  So each flag is
\* the is_press of the last event on one of its two variants, and a flag
\* that is true has one of its variants among the held keys.  The last
\* conjunct states the same of update for every value of the flags and every
\* key of the four roles, also those that the listener of this
\* specification is not sent.
C19_ModifierTracker ==
    /\ [][/\ \A k \in Keys : \A r \in Roles :
               /\ L_KeyPress(k) =>
                    modifiers'[r] = IF k \in Variants(r) THEN TRUE
                                    ELSE modifiers[r]
               /\ L_KeyRelease(k) =>
                    modifiers'[r] = IF k \in Variants(r) THEN FALSE
                                    ELSE modifiers[r]
          /\ (\E ok \in BOOLEAN : L_Start(ok)) =>
               \A r \in Roles : modifiers'[r] = FALSE
          /\ lpc \notin {"spawned", "idle"} => UNCHANGED modifiers]_vars
    /\ [](\A r \in Roles :
            modifiers[r] => Variants(r) \cap pressed_keys # {})
    /\ [](lpc = "spawned" =>
            \A m \in [Roles -> BOOLEAN] : \A k \in Keys : \A b \in BOOLEAN :
                \A r \in Roles :
                    update(m, k, b)[r] = IF k \in Variants(r) THEN b ELSE m[r])

\* The left shift key is held and the shift flag is false: the right shift
\* key was pressed and released while the left one stayed down.
C19_Witness ==
    /\ lpc = "idle"
    /\ "ShiftLeft" \in pressed_keys
    /\ ~modifiers["shift"]
    /\ modifiers["ctrl"]

\* The tokens of parts at the positions in keep, each followed by a blank.
RECURSIVE KeepAt(_, _, _)
KeepAt(parts, keep, i) ==
    IF i > Len(parts) THEN <<>>
    ELSE (IF i \in keep THEN <<parts[i], " ">> ELSE <<>>)
         \o KeepAt(parts, keep, i + 1)

\* The hotkey string without its tokens that are not modifier aliases,
\* except the last of them.
WithoutEarlierKeys(str) ==
    LET parts == split_whitespace(str)
        keys == { j \in DOMAIN parts : ~IsModifier(parts[j]) }
        last == { j \in keys : \A k \in keys : k <= j }
    IN  KeepAt(parts, (DOMAIN parts \ keys) \cup last, 1)

\* C20: the trigger key of a hotkey string is set by its last token that is
\* not a modifier alias alone: check_hotkey returns what it returns for the
\* string without the earlier such tokens, and it returns false, whatever is
\* held, when that last token names no key or there is no such token.
C20_LastTokenIsTrigger ==
    hkResult # None =>
        LET str == config.hotkeys["add_window"]
            parts == split_whitespace(str)
            keys == { j \in DOMAIN parts : ~IsModifier(parts[j]) }
        IN  /\ hkResult[1] = check_hotkey(pressed_keys, modifiers,
                                          WithoutEarlierKeys(str))
            /\ keys = {} => ~hkResult[1]
            /\ \A j \in keys :
                 ((\A k \in keys : k <= j) /\ str_to_key(parts[j]) = None)
                     => ~hkResult[1]
            /\ \A j \in keys :
                 ((\A k \in keys : k <= j) /\ str_to_key(parts[j]) # None
                  /\ NamedRoles(str) = ActiveRoles(modifiers))
                     => (hkResult[1] <=> str_to_key(parts[j])[1] \in pressed_keys)

\* check_hotkey returned true for "a q" with q held and a not held: the
\* earlier token a is not required.
C20_Witness ==
    /\ hkResult = Some(TRUE)
    /\ config.hotkeys["add_window"] = <<"a", " ", "q">>
    /\ pressed_keys = {"KeyQ"}

\* A step of the listener at which the remember action fires.
Fires == L_Lock /\ lpc' = "l_resolve"

\* C21: once the listener has started, last_hotkey changes only at a
\* firing, which sets it to the time of the firing: a matching press that
\* the gate suppresses, a press that does not match, and a release leave it
\* as it is.  A firing happens only when more than the cooldown has passed
\* since last_hotkey, so two firings are more than 1 s apart, also when the
\* presses are the repeats of a held key.
C21_ClockOnlyOnFire ==
    [][/\ (lpc # "spawned" /\ last_hotkey' # last_hotkey) =>
            (Fires /\ hotkey_matches /\ last_hotkey' = now)
       /\ Fires =>
            /\ now - last_hotkey > CooldownTicks
            /\ last_hotkey' = now
       /\ (L_Lock /\ ~Fires) => UNCHANGED last_hotkey
       /\ \A k \in Keys :
            (L_KeyPress(k) \/ L_KeyRelease(k)) => UNCHANGED last_hotkey]_vars

\* The remember action has fired and saved, and a later matching press,
\* within the cooldown of that firing, was suppressed: the clock still holds
\* the time of the firing, not that of the suppressed press.
C21_Witness ==
    /\ lpc = "idle"
    /\ remembered["listener"] # None
    /\ lastPress # None
    /\ ~lastPress[1].fired
    /\ lastPress[1].t > last_hotkey
    /\ lastPress[1].t - last_hotkey <= CooldownTicks

\* The steps of the two driving loops at which an operation fails: in the
\* main thread the active window is not resolved, wait_for_event returns an
\* error, the class of the window is not read, or the layout is not read or
\* not set; in the listener the window or the layout of the remember action
\* is not resolved, or the file is not read or not parsed, or rdev::listen
\* returns an error.
RuntimeFailure ==
    \/ M_NoWindow("no_window")
    \/ M_NoWindow("event_error")
    \/ \E w \in WindowIds : M_Notify(w, None) /\ ~same_window(last_window_id, w)
    \/ H_Get("fail")
    \/ H_Set("fail")
    \/ L_ResolveFail
    \/ L_Read /\ (Malformed(file) \/ ~file.exists)
    \/ L_Start(FALSE)

\* C22: every runtime failure in the two driving loops produces at least one
\* log record: the step at which the operation fails writes a record.
C22_FailuresAreLogged ==
    [][RuntimeFailure => logged' # <<>>]_vars

\* The main thread is in run mode: new has returned the configuration.
InRunMode ==
    mpc \notin {"new", "new_log", "new_load", "new_read", "new_create",
                "new_write", "exit_err"}

\* C23: in run mode the shared configuration is never modified: no step of
\* the daemon changes it once new has returned, and the steps of the
\* remember action, which create and write the file, leave it as it is.
C23_SharedConfigFrozen ==
    [][/\ InRunMode => UNCHANGED config
       /\ (L_Load \/ L_Read \/ L_Create \/ L_Write) => UNCHANGED config]_vars

\* In run mode the listener has saved a class to the file, and the shared
\* configuration does not have it.
C23_Witness ==
    /\ InRunMode
    /\ lpc = "idle"
    /\ remembered["listener"] # None
    /\ from_str(file.text) # None
    /\ remembered["listener"][1] \in DOMAIN from_str(file.text)[1].window_layout_map
    /\ remembered["listener"][1] \notin DOMAIN config.window_layout_map

\* C24: the listener creates last_hotkey as the time of its own start, the
\* clock of a started listener never goes back behind that time, and a
\* firing requires more than the cooldown since the clock: so no matching
\* press within 1 second after the start fires, and the first firing is on a
\* matching press more than 1 second after the start.  As long as the clock
\* is at most the cooldown it is still the time of the start (a firing sets
\* it to a later time), and then a press that fired was later than the
\* start by more than the cooldown.
C24_NoFiringRightAfterStart ==
    [][/\ (\E ok \in BOOLEAN : L_Start(ok)) => last_hotkey' = now
       /\ lpc # "spawned" => last_hotkey' >= last_hotkey
       /\ (L_Lock /\ hotkey_matches /\ now - last_hotkey <= CooldownTicks) =>
             /\ ~Fires
             /\ lastPress' = Some([t |-> now, fired |-> FALSE])
             /\ UNCHANGED <<last_hotkey, remembered, file>>
       /\ Fires => now - last_hotkey > CooldownTicks]_vars

\* The listener started later than time 0 and has not fired yet (the clock
\* is at most the cooldown, so it is the time of the start); a matching
\* press within the cooldown after the start was suppressed.
C24_Witness ==
    /\ lpc = "idle"
    /\ last_hotkey > 0
    /\ last_hotkey <= CooldownTicks
    /\ remembered["listener"] = None
    /\ lastPress # None
    /\ ~lastPress[1].fired
    /\ lastPress[1].t >= last_hotkey
    /\ lastPress[1].t - last_hotkey <= CooldownTicks
====
